---- MODULE Spec2Model ----
(***************************************************************************)
(* A model of particula's Particle class (src/particula/particle.py): the  *)
(* radius grid of ParticleDistribution.pre_radius, the fields set by the   *)
(* constructors, and the derived-quantity and coagulation accessors, which *)
(* hand the fields of two Particle objects to DimensionlessCoagulation.    *)
(*                                                                         *)
(* Real numbers are fixed-point integers: the real x is the integer        *)
(* x * SCALE, products and quotients round toward zero.  NaN is a reserved *)
(* value.  Lengths, temperatures and charges are in model units.           *)
(*                                                                         *)
(* The radius grid is computed in binary floating point: a float is an     *)
(* integer of at most MantissaBits significant bits, and every operation   *)
(* of pre_radius and np.linspace rounds its exact result to the nearest    *)
(* float, ties to even, as IEEE 754 arithmetic does.                       *)
(***************************************************************************)
EXTENDS Integers, Sequences, FiniteSets, TLC

(***************************************************************************)
(* Fixed-point arithmetic: numpy's float arithmetic, exp, log, sqrt, power *)
(***************************************************************************)
SCALE == 10^3

NaN == -(2^30)

\* the element of a one-element set.  Only({F(x) : x \in {e}}) is F(e) with
\* e evaluated once, whatever the number of uses of x in F
Only(S) == CHOOSE x \in S : TRUE

Abs(x) == IF x < 0 THEN -x ELSE x

Sgn(x) == IF x < 0 THEN -1 ELSE IF x > 0 THEN 1 ELSE 0

Min(x_, y_) ==
    Only({
            IF x <= y THEN x ELSE y
        : x \in {x_}, y \in {y_}})

\* |a|*|b|/SCALE without forming a*b
MulAbs(a, b) ==
    LET hi == IF a >= b THEN a ELSE b
        lo == IF a >= b THEN b ELSE a
    IN  (hi \div SCALE) * lo + ((hi % SCALE) * lo) \div SCALE

Mul(a_, b_) ==
    Only({
            Sgn(a) * Sgn(b) * MulAbs(Abs(a), Abs(b))
        : a \in {a_}, b \in {b_}})

\* |a|*SCALE/|b| without forming a*SCALE
DivAbs(a, b) == (a \div b) * SCALE + ((a % b) * SCALE) \div b

Div(a_, b_) ==
    Only({
            Sgn(a) * Sgn(b) * DivAbs(Abs(a), Abs(b))
        : a \in {a_}, b \in {b_}})

FP(n) == n * SCALE

RECURSIVE ISqrtBetween(_, _, _)
\* the largest r in lo..hi with r*r <= n
ISqrtBetween(n_, lo_, hi_) ==
    Only({
            IF lo >= hi THEN lo
            ELSE LET mid == (lo + hi + 1) \div 2
                 IN  IF mid * mid <= n THEN ISqrtBetween(n, mid, hi)
                     ELSE ISqrtBetween(n, lo, mid - 1)
        : n \in {n_}, lo \in {lo_}, hi \in {hi_}})

RECURSIVE Sqrt(_)
Sqrt(x_) ==
    Only({
            IF x > 2 * SCALE * SCALE THEN 2 * Sqrt(x \div 4)
            ELSE ISqrtBetween(x * SCALE, 0, 46340)
        : x \in {x_}})

RECURSIVE ExpSeries(_, _, _, _)
\* sum of the terms x^k/k! from term k on, up to k = n
ExpSeries(x_, term_, k_, n_) ==
    Only({
            IF k > n \/ term = 0 THEN 0
            ELSE term + ExpSeries(x, Mul(term, x) \div (k + 1), k + 1, n)
        : x \in {x_}, term \in {term_}, k \in {k_}, n \in {n_}})

RECURSIVE ExpPos(_)
\* exp(x) for x >= 0
ExpPos(x_) ==
    Only({
            IF x > SCALE \div 2
            THEN LET h == ExpPos(x \div 2)
                     e == Mul(h, h)
                 IN  IF x % 2 = 1 THEN e + e \div SCALE ELSE e
            ELSE ExpSeries(x, SCALE, 0, 8)
        : x \in {x_}})

\* exp(x); below exp(-12) the result is 0 at this precision
Exp(x_) ==
    Only({
            IF x >= 0 THEN ExpPos(x)
            ELSE IF x < -12 * SCALE THEN 0
            ELSE Div(SCALE, ExpPos(-x))
        : x \in {x_}})

\* 2*atanh(z) = 2*(z + z^3/3 + z^5/5 + z^7/7), for 0 <= z <= 1/3
Atanh2(z_) ==
    Only({
            LET z2 == Mul(z, z)
                z3 == Mul(z2, z)
                z5 == Mul(z3, z2)
                z7 == Mul(z5, z2)
            IN  2 * (z + z3 \div 3 + z5 \div 5 + z7 \div 7)
        : z \in {z_}})

RECURSIVE Ln(_)
\* natural logarithm of x > 0
Ln(x_) ==
    Only({
            LET ln2 == 693
            IN  IF x >= 2 * SCALE THEN Ln(x \div 2) + ln2
                ELSE IF x < SCALE THEN Ln(2 * x) - ln2
                ELSE Atanh2(Div(x - SCALE, x + SCALE))
        : x \in {x_}})

\* x ** y for x >= 0
Pow(x_, y_) ==
    Only({
            IF x = 0 THEN (IF y = 0 THEN SCALE ELSE 0)
            ELSE Exp(Mul(y, Ln(x)))
        : x \in {x_}, y \in {y_}})

(***************************************************************************)
(* Floating point: the arithmetic of the radius grid.                      *)
(***************************************************************************)
\* the significant bits of a float
MantissaBits == 9

RECURSIVE Shift(_, _, _)
\* the spacing of the floats around n/d: the least power of two that leaves
\* n/d with MantissaBits significant bits
Shift(n_, d_, sh_) ==
    Only({
            IF n \div (d * sh) < 2^MantissaBits THEN sh ELSE Shift(n, d, 2 * sh)
        : n \in {n_}, d \in {d_}, sh \in {sh_}})

\* the float nearest to n/d, ties to even, for n >= 0 and d > 0
RoundQ(n_, d_) ==
    Only({
            LET sh == Shift(n, d, 1)
                m  == n \div (d * sh)
                r  == n % (d * sh)
            IN  IF 2 * r > d * sh \/ (2 * r = d * sh /\ m % 2 = 1)
                THEN (m + 1) * sh
                ELSE m * sh
        : n \in {n_}, d \in {d_}})

\* the float nearest to x
Float(x_) ==
    Only({
            Sgn(x) * RoundQ(Abs(x), 1)
        : x \in {x_}})

\* a + b and a - b as floats
FloatAdd(a, b) == Float(a + b)

FloatSub(a, b) == Float(a - b)

\* n*x for a count n, as a float
FloatMul(n, x) == Float(Float(n) * x)

\* a/k for a count k, as a float
FloatDiv(a_, k_) ==
    Only({
            Sgn(a) * Sgn(k) * RoundQ(Abs(a), Abs(k))
        : a \in {a_}, k \in {k_}})

\* int(a / b): the quotient as a float, with MantissaBits binary places
\* where it is below 1, truncated toward zero
IntQuotient(a_, b_) ==
    Only({
            Sgn(a) * Sgn(b)
            * (RoundQ(Abs(a) * 2^MantissaBits, Abs(b)) \div 2^MantissaBits)
        : a \in {a_}, b \in {b_}})

\* the float below x, for x > 0
Pred(x_) ==
    Only({
            LET sh == Shift(x, 1, 1)
            IN  IF sh > 1 /\ x = 2^(MantissaBits - 1) * sh THEN x - sh \div 2
                ELSE x - sh
        : x \in {x_}})

(***************************************************************************)
(* Arrays.  A radius is [nd, v]: nd = 0 for a single particle (a scalar),  *)
(* nd = 1 for an array; v holds the values.  A result carries its shape:   *)
(* <<>> for a scalar, <<n>> for a vector, <<n, m>> for a pairwise matrix.  *)
(***************************************************************************)
Scalar(x) == [nd |-> 0, v |-> <<x>>]

Array(seq) == [nd |-> 1, v |-> seq]

Size(r) == Len(r.v)

Transpose(m, rows, cols) ==
    [j \in 1..cols |-> [i \in 1..rows |-> m[i][j]]]

Ok(shape, value) == [status |-> "ok", shape |-> shape, value |-> value]

Raise(error) == [status |-> error, shape |-> <<>>, value |-> <<>>]

(***************************************************************************)
(* Physical constants and the environment, in model units.                 *)
(***************************************************************************)
ELEMENTARY_CHARGE_VALUE == 7

ELECTRIC_PERMITTIVITY == 1

BOLTZMANN_CONSTANT == 1

PI == 3142

\* Environment.dynamic_viscosity(): a resolved positive scalar (0.38)
dynamic_viscosity(temperature) == 380

\* Environment.mean_free_path(): a resolved positive scalar (1.32)
mean_free_path(temperature) == 1320

(***************************************************************************)
(* particula.util: the functions the accessors call, for one particle or   *)
(* one pair of particles.  Densities, charges, temperatures and the        *)
(* physical constants are integers, everything else is fixed-point.        *)
(***************************************************************************)
\* mass = shape_factor * density * (4/3) pi r^3 * (1 - volume_void)
mass(r, density, shape_factor, volume_void) ==
    Mul(Mul(shape_factor, density * Mul((4 * PI) \div 3, Mul(Mul(r, r), r))),
        SCALE - volume_void)

\* Kn = mfp / radius
knu(r, mfp) == Div(mfp, r)

\* Cunningham: 1 + Kn (1.142 + 0.558 exp(-0.999/Kn))
scf(r_, kn_) ==
    Only({
            SCALE + Mul(kn, 1142 + Mul(558, Exp(-Div(999, kn))))
        : r \in {r_}, kn \in {kn_}})

\* 6 pi mu r / scf
frifac(r, viscosity, slip) == Div(Mul(Mul(6 * PI, viscosity), r), slip)

\* a b / (a + b)
redq(a_, b_) ==
    Only({
            Div(Mul(a, b), a + b)
        : a \in {a_}, b \in {b_}})

\* -qa qb e^2 / (4 pi eps0 (ra + rb) kB T)
cpr(ra, rb, qa, qb, temperature, e, eps0, kb) ==
    Div(FP(-qa * qb * e * e),
        Mul(4 * PI * eps0 * kb * temperature, ra + rb))

\* kinetic limit: 1 + ratio where ratio >= 0, exp(ratio) where ratio < 0
cekl(ratio_) ==
    Only({
            IF ratio >= 0 THEN SCALE + ratio ELSE Exp(ratio)
        : ratio \in {ratio_}})

\* continuum limit: ratio / (1 - exp(-ratio)), and 1 at ratio = 0
cecl(ratio_) ==
    Only({
            IF ratio = 0 THEN SCALE ELSE Div(ratio, SCALE - Exp(-ratio))
        : ratio \in {ratio_}})

\* hard sphere: (4 pi K^2 + 25.836 K^3 + sqrt(8 pi) 11.211 K^4)
\*              / (1 + 3.502 K + 7.211 K^2 + 11.211 K^3)
hard_sphere(kn_) ==
    Only({
            LET k2 == Mul(kn, kn)
                k3 == Mul(k2, kn)
                k4 == Mul(k3, kn)
                top == Mul(4 * PI, k2) + Mul(25836, k3) + Mul(Mul(5013, 11211), k4)
                bot == SCALE + Mul(3502, kn) + Mul(7211, k2) + Mul(11211, k3)
            IN  Div(top, bot)
        : kn \in {kn_}})

\* cg2019: hard_sphere(K) exp(mu), mu fitted on the potential ratio, with no
\* branch on its sign; a negative ratio under the power 0.272 (or a
\* non-positive base t) is NaN
InterpAMu(corrc, t, p_) ==
    Only({Mul(Mul(Div(corrc, 2500), Div(p, t)), Exp(-p)) : p \in {p_}})

InterpAKernel(kn, corrc, corrk, t_) ==
    Only({IF t <= 0 THEN NaN
          ELSE Mul(hard_sphere(kn),
                   Exp(InterpAMu(corrc, t,
                           Pow(t, -((SCALE * SCALE * SCALE) \div corrk)))))
        : t \in {t_}})

\* corrb and corrc are fitted on the ratio; corrk = -0.003533 ratio + 0.05971
\* is kept to six decimals
InterpAFitted(kn, corrb_, corrc_, corrk_) ==
    Only({IF corrk <= 0 THEN NaN
          ELSE InterpAKernel(kn, corrc, corrk,
                   SCALE + (corrk * Div(Ln(kn) - corrb, 2500))
                               \div (SCALE * SCALE))
        : corrb \in {corrb_}, corrc \in {corrc_}, corrk \in {corrk_}})

continuum_kinetic_interp_A(kn_, ratio_) ==
    Only({IF ratio < 0 THEN NaN
          ELSE InterpAFitted(kn,
                   Mul(4528, Exp(-Mul(1088, ratio)))
                       + Mul(709, Ln(SCALE + Mul(1527, ratio))),
                   Mul(11360, Pow(ratio, 272)) - 10330,
                   59710 - (3533 * ratio) \div SCALE)
        : kn \in {kn_}, ratio \in {ratio_}})

\* gh2012 forms the quotient 1.5 K / ratio only where ratio > 0.5
InterpBQuotientFormed(ratio) == ratio > 500

\* gh2012: hard_sphere(K) when ratio <= 0.5, otherwise
\* cecl / (1 + 1.598 min(K, 1.5 K / ratio)^1.1709)
continuum_kinetic_interp_B(kn_, ratio_) ==
    Only({
            IF ~InterpBQuotientFormed(ratio) THEN hard_sphere(kn)
            ELSE Div(cecl(ratio),
                     SCALE + Mul(1598,
                                 Pow(Min(kn, Div(Mul(1500, kn), ratio)), 1171)))
        : kn \in {kn_}, ratio \in {ratio_}})

Parameterizations ==
    {"hard_sphere", "continuum_kinetic_interp_A", "continuum_kinetic_interp_B"}

(***************************************************************************)
(* DimensionlessCoagulation: built from the keyword arguments k that       *)
(* Particle._coag_prep passes, it validates them and computes pairwise.    *)
(***************************************************************************)
Positive(seq) == \A i \in 1..Len(seq) : seq[i] > 0

\* validation at entry: radius, density and temperature are positive
DomainOk(k) ==
    /\ Positive(k.radius.v)
    /\ Positive(k.other_radius.v)
    /\ k.density > 0
    /\ k.other_density > 0
    /\ k.temperature > 0

PairShape(k) ==
    IF k.radius.nd = 0 /\ k.other_radius.nd = 0 THEN <<>>
    ELSE <<Size(k.radius), Size(k.other_radius)>>

ParticleFrifac(r, temperature) ==
    frifac(r, dynamic_viscosity(temperature),
           scf(r, knu(r, mean_free_path(temperature))))

RedMass(k, i, j) ==
    redq(mass(k.radius.v[i], k.density, SCALE, 0),
         mass(k.other_radius.v[j], k.other_density, SCALE, 0))

RedFrifac(k, i, j) ==
    redq(ParticleFrifac(k.radius.v[i], k.temperature),
         ParticleFrifac(k.other_radius.v[j], k.temperature))

PotentialRatio(k, i, j) ==
    cpr(k.radius.v[i], k.other_radius.v[j], k.charge, k.other_charge,
        k.temperature, k.elementary_charge_value, k.electric_permittivity,
        k.boltzmann_constant)

Cekl(k, i, j) == cekl(PotentialRatio(k, i, j))

Cecl(k, i, j) == cecl(PotentialRatio(k, i, j))

\* sqrt(kB T m_red) / f_red / ((ra + rb) cekl / cecl)
DiffKnu(k, i, j) ==
    Div(Div(Sqrt(k.boltzmann_constant * k.temperature * RedMass(k, i, j)),
            RedFrifac(k, i, j)),
        Div(Mul(k.radius.v[i] + k.other_radius.v[j], Cekl(k, i, j)),
            Cecl(k, i, j)))

CoagLess(k, i, j) ==
    Only({CASE k.coag_approx = "hard_sphere" -> hard_sphere(kn)
            [] k.coag_approx = "continuum_kinetic_interp_A" ->
                  continuum_kinetic_interp_A(kn, ratio)
            [] k.coag_approx = "continuum_kinetic_interp_B" ->
                  continuum_kinetic_interp_B(kn, ratio)
        : kn \in {DiffKnu(k, i, j)}, ratio \in {PotentialRatio(k, i, j)}})

\* coag_less f_red (ra + rb)^3 cekl^2 / m_red / cecl
CoagFull(k, i, j) ==
    Only({IF less = NaN THEN NaN
          ELSE Div(Div(Mul(Mul(Mul(less, RedFrifac(k, i, j)),
                               Mul(Mul(rsum, rsum), rsum)),
                           Mul(kin, kin)),
                       RedMass(k, i, j)),
                   Cecl(k, i, j))
        : less \in {CoagLess(k, i, j)},
          rsum \in {k.radius.v[i] + k.other_radius.v[j]},
          kin \in {Cekl(k, i, j)}})

\* validation at entry, then the values broadcast over the outer product of
\* the two radius arrays
Pairwise(k, values) ==
    IF ~DomainOk(k) THEN Raise("DomainError") ELSE Ok(PairShape(k), values)

get_red_mass(k_) ==
    Only({Pairwise(k, [i \in 1..Size(k.radius) |->
                         [j \in 1..Size(k.other_radius) |->
                             RedMass(k, i, j)]]) : k \in {k_}})

get_red_frifac(k_) ==
    Only({Pairwise(k, [i \in 1..Size(k.radius) |->
                         [j \in 1..Size(k.other_radius) |->
                             RedFrifac(k, i, j)]]) : k \in {k_}})

get_ces(k_) ==
    Only({<<Pairwise(k, [i \in 1..Size(k.radius) |->
                           [j \in 1..Size(k.other_radius) |->
                               PotentialRatio(k, i, j)]]),
            Pairwise(k, [i \in 1..Size(k.radius) |->
                           [j \in 1..Size(k.other_radius) |->
                               Cekl(k, i, j)]]),
            Pairwise(k, [i \in 1..Size(k.radius) |->
                           [j \in 1..Size(k.other_radius) |->
                               Cecl(k, i, j)]])>> : k \in {k_}})

get_diff_knu(k_) ==
    Only({Pairwise(k, [i \in 1..Size(k.radius) |->
                         [j \in 1..Size(k.other_radius) |->
                             DiffKnu(k, i, j)]]) : k \in {k_}})

\* the selector is looked at after validation and before any kernel value
coag_less(k_) ==
    Only({IF DomainOk(k) /\ k.coag_approx \notin Parameterizations
          THEN Raise("InvalidParameterization")
          ELSE Pairwise(k, [i \in 1..Size(k.radius) |->
                              [j \in 1..Size(k.other_radius) |->
                                  CoagLess(k, i, j)]]) : k \in {k_}})

\* built on coag_less: the same failures, then the dimensioned values
coag_full(k_) ==
    Only({IF DomainOk(k) /\ k.coag_approx \notin Parameterizations
          THEN Raise("InvalidParameterization")
          ELSE Pairwise(k, [i \in 1..Size(k.radius) |->
                              [j \in 1..Size(k.other_radius) |->
                                  CoagFull(k, i, j)]]) : k \in {k_}})

(***************************************************************************)
(* ParticleDistribution: the radius grid.                                  *)
(***************************************************************************)
\* the default of radius_start, radius_end and radius_step: "not forced"
SENTINEL == 8392

None == -(2^29)

NoRadius == [nd |-> -1, v |-> <<>>]

\* cut_rad: the forced bounds where given, otherwise the interval that
\* holds the cutoff share of the lognormal distribution around the mode
cut_rad(cutoff, gsigma, mode, force_radius_start, force_radius_end) ==
    <<IF force_radius_start = None THEN Float(Div(mode, 2380))
      ELSE force_radius_start,
      IF force_radius_end = None THEN Float(Mul(mode, 2380))
      ELSE force_radius_end>>

\* np.linspace(start, stop, num): delta = stop - start over div = num - 1
\* intervals, the points arange(num)*step + start with step = delta/div
\* (arange(num)/div*delta + start where that step is 0), the last point
\* set to stop
linspace(start_, stop_, num_) ==
    Only({
            LET div   == num - 1
                delta == FloatSub(stop, start)
                step  == IF div > 0 THEN FloatDiv(delta, div) ELSE 0
                y(i)  == IF div > 0 /\ step # 0 THEN FloatMul(i, step)
                         ELSE IF div > 0
                         THEN Sgn(delta) * RoundQ(RoundQ(i * 2^MantissaBits, div)
                                                      * Abs(delta), 2^MantissaBits)
                         ELSE FloatMul(i, delta)
            IN  [i \in 1..num |->
                    IF i = num /\ num > 1 THEN stop ELSE FloatAdd(y(i - 1), start)]
        : start \in {start_}, stop \in {stop_}, num \in {num_}})

\* np.log10(x); log10(0) is -inf, which the grid below turns into NaN
log10(x) == IF x <= 0 THEN NaN ELSE Div(Ln(x), 2303)

\* np.logspace(start, stop, num) = 10 ** linspace(start, stop, num)
logspace(start_, stop_, num_) ==
    Only({
            IF start = NaN \/ stop = NaN
            THEN [i \in 1..num |->
                    IF i = num /\ num > 1 /\ stop # NaN THEN Exp(Mul(stop, 2303))
                    ELSE NaN]
            ELSE LET exps == linspace(start, stop, num)
                 IN  [i \in 1..num |-> Exp(Mul(exps[i], 2303))]
        : start \in {start_}, stop \in {stop_}, num \in {num_}})

\* lines 68-79: the interval of the grid from cut_rad
pre_radius_cut(self) ==
    LET forcing_radius_start ==
            IF self.force_radius_start = FP(SENTINEL) THEN None
            ELSE self.force_radius_start
        forcing_radius_end ==
            IF self.force_radius_end = FP(SENTINEL) THEN None
            ELSE self.force_radius_end
    IN  cut_rad(self.cutoff, self.gsigma, self.mode,
                forcing_radius_start, forcing_radius_end)

\* mutant: one bin short, the grid stops at or before the cut-off
pre_radius_nbins_short(self) ==
    LET rad_start == pre_radius_cut(self)[1]
        rad_end   == pre_radius_cut(self)[2]
        diff      == FloatSub(rad_end, rad_start)
        step      == self.force_radius_step
    IN  IF step # FP(SENTINEL) THEN IntQuotient(diff, step) + 1
        ELSE self.nbins

\* lines 80-84: the number of bins; int() truncates toward zero
pre_radius_nbins(self) ==
    LET rad_start == pre_radius_cut(self)[1]
        rad_end   == pre_radius_cut(self)[2]
        diff      == FloatSub(rad_end, rad_start)
        step      == self.force_radius_step
    IN  IF step # FP(SENTINEL) THEN IntQuotient(diff, step) + 2
        ELSE self.nbins

\* line 82: the end of the grid
pre_radius_rad_end(self) ==
    IF self.force_radius_step # FP(SENTINEL)
    THEN FloatAdd(pre_radius_cut(self)[1],
                  FloatMul(pre_radius_nbins(self) - 1, self.force_radius_step))
    ELSE pre_radius_cut(self)[2]

\* lines 86-101
pre_radius(self) ==
    LET rad_start == pre_radius_cut(self)[1]
        rad_end   == pre_radius_rad_end(self)
        nbins     == pre_radius_nbins(self)
    IN  IF self.spacing = "logspace"
        THEN Ok(<<nbins>>, logspace(log10(rad_start), log10(rad_end), nbins))
        ELSE IF self.spacing = "linspace"
        THEN Ok(<<nbins>>, linspace(rad_start, rad_end, nbins))
        ELSE Raise("ValueError")

\* ParticleDistribution.__init__, lines 42-55
ParticleDistribution(kwargs) ==
    [spacing            |-> kwargs.spacing,
     nbins              |-> kwargs.nbins,
     cutoff             |-> 999,
     gsigma             |-> 1250,
     mode               |-> FP(2),
     force_radius_start |-> kwargs.radius_start,
     force_radius_end   |-> kwargs.radius_end,
     force_radius_step  |-> kwargs.radius_step]

(***************************************************************************)
(* Particle: the fields the constructors set.                              *)
(***************************************************************************)
\* ParticleInstances.__init__ and Particle.__init__
Particle(kwargs) ==
    LET dist == ParticleDistribution(kwargs)
    IN  [dist                      |-> dist,
         particle_radius           |->
             IF kwargs.particle_radius = NoRadius
             THEN Array(pre_radius(dist).value)
             ELSE kwargs.particle_radius,
         particle_density          |-> kwargs.particle_density,
         shape_factor              |-> SCALE,
         volume_void               |-> 0,
         particle_charge           |-> kwargs.particle_charge,
         temperature               |-> kwargs.temperature,
         coagulation_approximation |-> kwargs.coagulation_approximation,
         elementary_charge_value   |-> ELEMENTARY_CHARGE_VALUE,
         electric_permittivity     |-> ELECTRIC_PERMITTIVITY,
         boltzmann_constant        |-> BOLTZMANN_CONSTANT]

\* the shape of a per-particle result
ParticleShape(radius) == IF radius.nd = 0 THEN <<>> ELSE <<Size(radius)>>

\* lines 181-189
particle_mass(self) ==
    IF ~Positive(self.particle_radius.v) THEN Raise("DomainError")
    ELSE Ok(ParticleShape(self.particle_radius),
            [i \in 1..Size(self.particle_radius) |->
                mass(self.particle_radius.v[i], self.particle_density,
                     self.shape_factor, self.volume_void)])

\* lines 199-205
knudsen_number(self) ==
    IF ~Positive(self.particle_radius.v) THEN Raise("DomainError")
    ELSE Ok(ParticleShape(self.particle_radius),
            [i \in 1..Size(self.particle_radius) |->
                knu(self.particle_radius.v[i],
                    mean_free_path(self.temperature))])

\* lines 207-213
slip_correction_factor(self) ==
    LET kn == knudsen_number(self)
    IN  IF kn.status # "ok" THEN kn
        ELSE Ok(kn.shape,
                [i \in 1..Size(self.particle_radius) |->
                    scf(self.particle_radius.v[i], kn.value[i])])

\* lines 215-222
friction_factor(self) ==
    LET slip == slip_correction_factor(self)
    IN  IF slip.status # "ok" THEN slip
        ELSE Ok(slip.shape,
                [i \in 1..Size(self.particle_radius) |->
                    frifac(self.particle_radius.v[i],
                           dynamic_viscosity(self.temperature),
                           slip.value[i])])

\* the keyword arguments as written, for the mutants below
CoagPrepFields(self, other) ==
    [radius                  |-> self.particle_radius,
     other_radius            |-> other.particle_radius,
     density                 |-> self.particle_density,
     other_density           |-> other.particle_density,
     charge                  |-> self.particle_charge,
     other_charge            |-> other.particle_charge,
     temperature             |-> self.temperature,
     elementary_charge_value |-> self.elementary_charge_value,
     electric_permittivity   |-> self.electric_permittivity,
     boltzmann_constant      |-> self.boltzmann_constant,
     coag_approx             |-> self.coagulation_approximation]

\* mutant: the other charge is read from self
_coag_prep_own_charge(self, other) ==
    [CoagPrepFields(self, other) EXCEPT
        !.other_charge = self.particle_charge]

\* mutant: the approximation is read from other
_coag_prep_other_approx(self, other) ==
    [CoagPrepFields(self, other) EXCEPT
        !.coag_approx = other.coagulation_approximation]

\* mutant: the other radius is read from self
_coag_prep_own_radius(self, other) ==
    [CoagPrepFields(self, other) EXCEPT
        !.other_radius = self.particle_radius]

\* mutant: the two radii are exchanged
_coag_prep_swapped_radius(self, other) ==
    [CoagPrepFields(self, other) EXCEPT
        !.radius = other.particle_radius,
        !.other_radius = self.particle_radius]

\* lines 372-387: the keyword arguments of DimensionlessCoagulation
_coag_prep(self, other) ==
    [radius                  |-> self.particle_radius,
     other_radius            |-> other.particle_radius,
     density                 |-> self.particle_density,
     other_density           |-> other.particle_density,
     charge                  |-> self.particle_charge,
     other_charge            |-> other.particle_charge,
     temperature             |-> self.temperature,
     elementary_charge_value |-> self.elementary_charge_value,
     electric_permittivity   |-> self.electric_permittivity,
     boltzmann_constant      |-> self.boltzmann_constant,
     coag_approx             |-> self.coagulation_approximation]

reduced_mass(self, other) == get_red_mass(_coag_prep(self, other))

reduced_friction_factor(self, other) ==
    get_red_frifac(_coag_prep(self, other))

\* mutant: the wrong element of get_ces
coulomb_potential_ratio_second(self, other) ==
    get_ces(_coag_prep(self, other))[2]

coulomb_potential_ratio(self, other) == get_ces(_coag_prep(self, other))[1]

\* mutant: the wrong element of get_ces
coulomb_enhancement_kinetic_limit_first(self, other) ==
    get_ces(_coag_prep(self, other))[1]

coulomb_enhancement_kinetic_limit(self, other) ==
    get_ces(_coag_prep(self, other))[2]

coulomb_enhancement_continuum_limit(self, other) ==
    get_ces(_coag_prep(self, other))[3]

diffusive_knudsen_number(self, other) ==
    get_diff_knu(_coag_prep(self, other))

\* mutant: the dimensioned kernel is returned
dimensionless_coagulation_full(self, other) ==
    coag_full(_coag_prep(self, other))

dimensionless_coagulation(self, other) == coag_less(_coag_prep(self, other))

coagulation(self, other) == coag_full(_coag_prep(self, other))

(***************************************************************************)
(* Bounds and the inputs drawn from them.                                  *)
(***************************************************************************)
MaxRadius == 2

Charges == {-1, 0, 1}

Temperatures == {3, 4}

Selectors == Parameterizations \cup {"other"}

\* no particle_radius given: the forced grid, linspace from radius_start
\* over radius_end in steps of 1
Grid(s, e) ==
    [particle_radius |-> NoRadius, spacing |-> "linspace", nbins |-> 3,
     radius_start |-> FP(s), radius_end |-> FP(e), radius_step |-> FP(1)]

GridKwargs == {Grid(s, s) : s \in 0..(MaxRadius - 1)} \cup {Grid(1, 2)}

\* a single particle of a given radius
ScalarKwargs ==
    {[particle_radius |-> Scalar(FP(r)), spacing |-> "linspace", nbins |-> 3,
      radius_start |-> FP(SENTINEL), radius_end |-> FP(SENTINEL),
      radius_step |-> FP(SENTINEL)] : r \in 0..MaxRadius}

Extend(kw, q, t, sel) ==
    [particle_radius |-> kw.particle_radius, spacing |-> kw.spacing,
     nbins |-> kw.nbins, radius_start |-> kw.radius_start,
     radius_end |-> kw.radius_end, radius_step |-> kw.radius_step,
     particle_density |-> 1, particle_charge |-> q, temperature |-> t,
     coagulation_approximation |-> sel]

\* the keyword arguments of the two objects; the second object is kept at
\* one temperature, at non-negative charge and at a recognized selector
ParticleKwargs ==
    {Extend(kw, q, t, sel) : kw \in GridKwargs \cup ScalarKwargs,
                             q \in Charges, t \in Temperatures,
                             sel \in Selectors}

OtherKwargs ==
    {kw \in ParticleKwargs :
        /\ kw.particle_charge >= 0
        /\ kw.temperature = 3
        /\ kw.coagulation_approximation \in Parameterizations}

(***************************************************************************)
(* State: the two Particle objects and the last accessor call.             *)
(***************************************************************************)
VARIABLES particles, call, dist, grid

vars == <<particles, call, dist, grid>>

Names == {"a", "b"}

NoCall == [op |-> "none", self |-> "a", other |-> "none", res |-> Raise("none")]

\* `other or self`
OtherOrSelf(self, other) ==
    IF other = "none" THEN particles[self] ELSE particles[other]

Others(self) == (Names \ {self}) \cup (IF self = "a" THEN {"none"} ELSE {})

\* the grid inputs: the floats nearest to the quarters of a unit
MaxGridBound == 6

MaxGridStep == 3

GridBounds ==
    {Float((FP(1) \div 4) * n) : n \in 0..MaxGridBound} \cup {FP(SENTINEL)}

GridSteps ==
    {Float((FP(1) \div 4) * n) : n \in 1..MaxGridStep} \cup {FP(SENTINEL)}

Spacings == {"linspace", "logspace", "geomspace"}

DistKwargs ==
    {kw \in [spacing : Spacings, nbins : {1, 3}, radius_start : GridBounds,
             radius_end : GridBounds, radius_step : GridSteps] :
        LET cut == pre_radius_cut(ParticleDistribution(kw))
        IN  cut[1] <= cut[2]}

DefaultDist ==
    ParticleDistribution([spacing |-> "linspace", nbins |-> 3,
                          radius_start |-> FP(SENTINEL),
                          radius_end |-> FP(SENTINEL),
                          radius_step |-> FP(SENTINEL)])

NoGrid == [op |-> "none", nbins |-> 0, rad_end |-> 0, res |-> Raise("none")]

Init ==
    /\ dist = DefaultDist
    /\ grid = NoGrid
    /\ \E ka \in ParticleKwargs, kb \in OtherKwargs :
          particles = [n \in Names |->
                          IF n = "a" THEN Particle(ka) ELSE Particle(kb)]
    /\ call = NoCall

\* mutant: the accessor stores the radii it used on self
ReturnedStoring(op, self, other, res) ==
    /\ call = NoCall
    /\ call' = [op |-> op, self |-> self, other |-> other, res |-> res]
    /\ particles' = [particles EXCEPT ![self].particle_radius =
                        IF other = "none" THEN @
                        ELSE particles[other].particle_radius]
    /\ UNCHANGED <<dist, grid>>

\* an accessor computes its result from the fields and assigns nothing
Returned(op, self, other, res) ==
    /\ call = NoCall
    /\ call' = [op |-> op, self |-> self, other |-> other, res |-> res]
    /\ UNCHANGED <<particles, dist, grid>>

\* the result is created per call and kept nowhere
Released ==
    /\ call # NoCall
    /\ call' = NoCall
    /\ UNCHANGED <<particles, dist, grid>>

ParticleMass ==
    \E self \in Names :
        Returned("particle_mass", self, "none", particle_mass(particles[self]))

FrictionFactor ==
    \E self \in Names :
        Returned("friction_factor", self, "none",
                 friction_factor(particles[self]))

ReducedMass ==
    \E self \in Names : \E other \in Others(self) :
        Returned("reduced_mass", self, other,
                 reduced_mass(particles[self], OtherOrSelf(self, other)))

ReducedFrictionFactor ==
    \E self \in Names : \E other \in Others(self) :
        Returned("reduced_friction_factor", self, other,
                 reduced_friction_factor(particles[self],
                                         OtherOrSelf(self, other)))

CoulombPotentialRatio ==
    \E self \in Names : \E other \in Others(self) :
        Returned("coulomb_potential_ratio", self, other,
                 coulomb_potential_ratio(particles[self],
                                         OtherOrSelf(self, other)))

CoulombEnhancementKineticLimit ==
    \E self \in Names : \E other \in Others(self) :
        Returned("coulomb_enhancement_kinetic_limit", self, other,
                 coulomb_enhancement_kinetic_limit(particles[self],
                                                   OtherOrSelf(self, other)))

CoulombEnhancementContinuumLimit ==
    \E self \in Names : \E other \in Others(self) :
        Returned("coulomb_enhancement_continuum_limit", self, other,
                 coulomb_enhancement_continuum_limit(particles[self],
                                                     OtherOrSelf(self, other)))

DiffusiveKnudsenNumber ==
    \E self \in Names : \E other \in Others(self) :
        Returned("diffusive_knudsen_number", self, other,
                 diffusive_knudsen_number(particles[self],
                                          OtherOrSelf(self, other)))

DimensionlessCoagulation ==
    \E self \in Names : \E other \in Others(self) :
        Returned("dimensionless_coagulation", self, other,
                 dimensionless_coagulation(particles[self],
                                           OtherOrSelf(self, other)))

Coagulation ==
    \E self \in Names : \E other \in Others(self) :
        Returned("coagulation", self, other,
                 coagulation(particles[self], OtherOrSelf(self, other)))

Next ==
    \/ ParticleMass
    \/ FrictionFactor
    \/ ReducedMass
    \/ ReducedFrictionFactor
    \/ CoulombPotentialRatio
    \/ CoulombEnhancementKineticLimit
    \/ CoulombEnhancementContinuumLimit
    \/ DiffusiveKnudsenNumber
    \/ DimensionlessCoagulation
    \/ Coagulation
    \/ Released

Spec == Init /\ [][Next]_vars

(***************************************************************************)
(* The radius grid alone: a ParticleDistribution and one pre_radius call.  *)
(***************************************************************************)
InitGrid ==
    /\ particles = [n \in Names |->
                      Particle(Extend(Grid(1, 1), 0, 3, "hard_sphere"))]
    /\ call = NoCall
    /\ dist \in {ParticleDistribution(kw) : kw \in DistKwargs}
    /\ grid = NoGrid

PreRadius ==
    /\ grid = NoGrid
    /\ grid' = [op |-> "pre_radius", nbins |-> pre_radius_nbins(dist),
                rad_end |-> pre_radius_rad_end(dist), res |-> pre_radius(dist)]
    /\ UNCHANGED <<particles, call, dist>>

NextGrid == PreRadius

SpecGrid == InitGrid /\ [][NextGrid]_vars

(***************************************************************************)
(* The claims.  Self and Other are the objects of the last call; Kw are    *)
(* the keyword arguments the kernel is to be computed from: the radii,     *)
(* densities and charges of both objects, everything else from self.       *)
(***************************************************************************)
Self == particles[call.self]

Other == OtherOrSelf(call.self, call.other)

Kw ==
    [radius                  |-> Self.particle_radius,
     other_radius            |-> Other.particle_radius,
     density                 |-> Self.particle_density,
     other_density           |-> Other.particle_density,
     charge                  |-> Self.particle_charge,
     other_charge            |-> Other.particle_charge,
     temperature             |-> Self.temperature,
     elementary_charge_value |-> Self.elementary_charge_value,
     electric_permittivity   |-> Self.electric_permittivity,
     boltzmann_constant      |-> Self.boltzmann_constant,
     coag_approx             |-> Self.coagulation_approximation]

Rows == 1..Size(Self.particle_radius)

Cols == 1..Size(Other.particle_radius)

PairOps ==
    {"reduced_mass", "reduced_friction_factor", "coulomb_potential_ratio",
     "coulomb_enhancement_kinetic_limit",
     "coulomb_enhancement_continuum_limit", "diffusive_knudsen_number",
     "dimensionless_coagulation", "coagulation"}

Apply(op, self, other) ==
    CASE op = "particle_mass" -> particle_mass(self)
      [] op = "friction_factor" -> friction_factor(self)
      [] op = "reduced_mass" -> reduced_mass(self, other)
      [] op = "reduced_friction_factor" -> reduced_friction_factor(self, other)
      [] op = "coulomb_potential_ratio" -> coulomb_potential_ratio(self, other)
      [] op = "coulomb_enhancement_kinetic_limit" ->
            coulomb_enhancement_kinetic_limit(self, other)
      [] op = "coulomb_enhancement_continuum_limit" ->
            coulomb_enhancement_continuum_limit(self, other)
      [] op = "diffusive_knudsen_number" ->
            diffusive_knudsen_number(self, other)
      [] op = "dimensionless_coagulation" ->
            dimensionless_coagulation(self, other)
      [] op = "coagulation" -> coagulation(self, other)

Returns(op) == call.op = op /\ call.res.status = "ok"

SameEnvironment ==
    /\ Self.temperature = Other.temperature
    /\ Self.elementary_charge_value = Other.elementary_charge_value
    /\ Self.electric_permittivity = Other.electric_permittivity
    /\ Self.boltzmann_constant = Other.boltzmann_constant
    /\ Self.coagulation_approximation = Other.coagulation_approximation

\* self.coagulation(other) is the transpose of other.coagulation(self)
Symmetric ==
    LET back == coagulation(Other, Self)
    IN  /\ back.status = call.res.status
        /\ call.res.status = "ok" =>
              /\ call.res.shape = IF back.shape = <<>> THEN <<>>
                                  ELSE <<back.shape[2], back.shape[1]>>
              /\ call.res.value = Transpose(back.value, Size(Other.particle_radius),
                                            Size(Self.particle_radius))

\* C1 as stated: a.coagulation(b) equals b.coagulation(a), transposed, for
\* every two objects, also when they carry different temperatures, physical
\* constants or coagulation approximations.
C1_SymmetryAcrossEnvironments == call.op = "coagulation" => Symmetric

\* C1 as amended: a.coagulation(b) equals b.coagulation(a), transposed,
\* when the two objects carry the same temperature, physical constants and
\* coagulation approximation (the kernel reads all three from self alone).
C1_SymmetrySameEnvironment ==
    (call.op = "coagulation" /\ SameEnvironment) => Symmetric

C1_Witness ==
    /\ Returns("coagulation")
    /\ call.other # "none"
    /\ SameEnvironment
    /\ call.res.shape = <<3, 2>>
    /\ Self.particle_charge # Other.particle_charge
    /\ call.res.value[1][1] # call.res.value[1][2]

\* C2: when one of the two charges is 0 the potential ratio of every pair
\* is 0 and the dimensionless kernel is hard_sphere(Kn_D), under each of
\* the three parameterizations.
C2_NeutralIsHardSphere ==
    (Returns("dimensionless_coagulation")
     /\ (Self.particle_charge = 0 \/ Other.particle_charge = 0)) =>
        \A i \in Rows, j \in Cols :
            /\ PotentialRatio(Kw, i, j) = 0
            /\ call.res.value[i][j] = hard_sphere(DiffKnu(Kw, i, j))

Model(selector, kn, ratio) ==
    CASE selector = "hard_sphere" -> hard_sphere(kn)
      [] selector = "continuum_kinetic_interp_A" ->
            continuum_kinetic_interp_A(kn, ratio)
      [] selector = "continuum_kinetic_interp_B" ->
            continuum_kinetic_interp_B(kn, ratio)

C4_DomainError ==
    (/\ call.op # "none"
     /\ \/ ~Positive(Self.particle_radius.v)
        \/ call.op \in PairOps /\ ~Positive(Other.particle_radius.v)) =>
        call.res = Raise("DomainError")

C4_Witness ==
    /\ call.op = "coulomb_potential_ratio"
    /\ Positive(Self.particle_radius.v)
    /\ ~Positive(Other.particle_radius.v)
    /\ call.res = Raise("DomainError")

\* C5: the potential ratio of a pair has the sign of -charge_a*charge_b:
\* negative for like charges, positive for opposite charges, 0 when either
\* charge is 0.
C5_RatioSign ==
    Returns("coulomb_potential_ratio") =>
        \A i \in Rows, j \in Cols :
            Sgn(call.res.value[i][j]) =
                -Sgn(Self.particle_charge) * Sgn(Other.particle_charge)

C5_Witness ==
    /\ Returns("coulomb_potential_ratio")
    /\ call.other # "none"
    /\ Self.particle_charge = 1
    /\ Other.particle_charge = 1
    /\ call.res.shape = <<2, 3>>
    /\ \A i \in Rows, j \in Cols : call.res.value[i][j] < 0

\* C6: at potential ratio 0 both enhancement factors are exactly 1 and no
\* element of the continuum factor is NaN; the kinetic factor is 1 + ratio
\* for ratio >= 0 and exp(ratio) for ratio < 0.
C6_Enhancement ==
    /\ Returns("coulomb_enhancement_kinetic_limit") =>
          \A i \in Rows, j \in Cols :
              LET ratio == PotentialRatio(Kw, i, j)
                  kin   == call.res.value[i][j]
              IN  /\ ratio = 0 => kin = SCALE
                  /\ ratio >= 0 => kin = SCALE + ratio
                  /\ ratio < 0 => kin = Exp(ratio)
    /\ Returns("coulomb_enhancement_continuum_limit") =>
          \A i \in Rows, j \in Cols :
              /\ call.res.value[i][j] # NaN
              /\ PotentialRatio(Kw, i, j) = 0 => call.res.value[i][j] = SCALE

C6_Witness ==
    /\ Returns("coulomb_enhancement_kinetic_limit")
    /\ Self.particle_charge = 0
    /\ Other.particle_charge # 0
    /\ call.res.value[1][1] = SCALE

Single(p, i) == [p EXCEPT !.particle_radius = Scalar(p.particle_radius.v[i])]

\* C7: a pairwise result has the shape (n, m) of the two radius arrays (a
\* scalar for two single particles), and its element (i, j) is the value
\* for particle i of self and particle j of other alone.
C7_Pairwise ==
    (call.op \in PairOps /\ call.res.status = "ok") =>
        /\ call.res.shape =
              IF Self.particle_radius.nd = 0 /\ Other.particle_radius.nd = 0
              THEN <<>>
              ELSE <<Size(Self.particle_radius), Size(Other.particle_radius)>>
        /\ DOMAIN call.res.value = Rows
        /\ \A i \in Rows :
              /\ DOMAIN call.res.value[i] = Cols
              /\ \A j \in Cols :
                    call.res.value[i][j] =
                        Apply(call.op, Single(Self, i),
                              Single(Other, j)).value[1][1]

C7_Witness ==
    /\ Returns("diffusive_knudsen_number")
    /\ call.res.shape = <<2, 3>>
    /\ call.res.value[1][1] # call.res.value[2][3]

GridExact ==
    LET cut  == pre_radius_cut(dist)
        step == dist.force_radius_step
    IN  /\ FloatSub(cut[2], cut[1]) = cut[2] - cut[1]
        /\ \A i \in 0..(grid.nbins - 1) :
              /\ FloatMul(i, step) = i * step
              /\ FloatAdd(i * step, cut[1]) = i * step + cut[1]

\* the bin count and the end of the grid as pre_radius computes them, and
\* the ValueError of an unknown spacing
GridCounted ==
    LET cut  == pre_radius_cut(dist)
        step == dist.force_radius_step
    IN  /\ (step # FP(SENTINEL) /\ step > 0 /\ cut[1] <= cut[2]) =>
              /\ grid.nbins = IntQuotient(FloatSub(cut[2], cut[1]), step) + 2
              /\ grid.nbins >= 2
              /\ grid.rad_end =
                    FloatAdd(cut[1], FloatMul(grid.nbins - 1, step))
              /\ dist.spacing = "linspace" =>
                    /\ grid.res.status = "ok"
                    /\ Len(grid.res.value) = grid.nbins
                    /\ grid.res.value[1] = cut[1]
                    /\ grid.res.value[grid.nbins] = grid.rad_end
        /\ dist.spacing \notin {"logspace", "linspace"} =>
              grid.res = Raise("ValueError")

\* C10 as stated: with a forced positive step and a cut-off interval
\* rad_start <= rad_end, the bin count is int((rad_end - rad_start)/step) + 2,
\* at least 2, the grid ends strictly beyond the cut-off rad_end, and under
\* linspace consecutive points differ by exactly step; a spacing other
\* than logspace or linspace raises ValueError and returns no grid.
C10_Grid ==
    grid.op = "pre_radius" =>
        LET cut  == pre_radius_cut(dist)
            step == dist.force_radius_step
        IN  /\ GridCounted
            /\ (step # FP(SENTINEL) /\ step > 0 /\ cut[1] <= cut[2]) =>
                  /\ grid.rad_end > cut[2]
                  /\ dist.spacing = "linspace" =>
                        \A i \in 1..(grid.nbins - 1) :
                            grid.res.value[i + 1] - grid.res.value[i] = step

\* C10 as amended: the bin count is int((rad_end - rad_start)/step) + 2 in
\* floating point, at least 2; the grid ends at the float
\* rad_start + (nbins - 1)*step, which is no less than the float just below
\* the cut-off rad_end, and strictly beyond rad_end when nothing was
\* rounded; under linspace the points do not decrease, and consecutive
\* points differ by exactly step when nothing was rounded; a spacing other
\* than logspace or linspace raises ValueError and returns no grid.
C10_GridRounded ==
    grid.op = "pre_radius" =>
        LET cut  == pre_radius_cut(dist)
            step == dist.force_radius_step
        IN  /\ GridCounted
            /\ (step # FP(SENTINEL) /\ step > 0 /\ cut[1] <= cut[2]) =>
                  /\ grid.rad_end >= Pred(cut[2])
                  /\ GridExact => grid.rad_end > cut[2]
                  /\ dist.spacing = "linspace" =>
                        \A i \in 1..(grid.nbins - 1) :
                            /\ grid.res.value[i] <= grid.res.value[i + 1]
                            /\ GridExact =>
                                  grid.res.value[i + 1] - grid.res.value[i]
                                      = step

\* a grid whose end was rounded onto the float below the cut-off
C10_Witness ==
    /\ grid.op = "pre_radius"
    /\ dist.spacing = "linspace"
    /\ dist.force_radius_step = Float(FP(1) \div 4)
    /\ dist.force_radius_start = Float(FP(1) \div 4)
    /\ dist.force_radius_end = Float(6 * (FP(1) \div 4))
    /\ ~GridExact
    /\ grid.nbins = 6
    /\ grid.rad_end = Pred(dist.force_radius_end)
    /\ Len(grid.res.value) = 6
====
